---- MODULE Spec2Model ----
(***************************************************************************)
(* A model of pyrate/algorithms/aisparser.py: the field converters, the    *)
(* row parser and validator, the two file readers, the main loop of run()  *)
(* (the Dispatcher) and the two sqlworker threads (the Batch Writers).     *)
(*                                                                         *)
(* Text is a sequence of one-character strings, so that len(), int(),      *)
(* float() and strptime() are computed from the characters.  A Python      *)
(* value is a record tagged with its type; a call that may raise returns   *)
(* a record [exc, val]: exc = "none" and the value, or the exception's     *)
(* type and its message.                                                   *)
(***************************************************************************)
EXTENDS Integers, Sequences, FiniteSets, TLC

----------------------------------------------------------------------------
(* Bounds of the model.                                                    *)

\* files.iterfiles() yields at most MaxFiles files in a run
MaxFiles == 2
\* the readers yield at most MaxRows raw records in a run
MaxRows == 2
\* the capacity of each queue in the model (5000 in the program)
MaxSize == 1

----------------------------------------------------------------------------
(* Python values and outcomes.                                             *)

None == [t |-> "None"]
IntV(n) == [t |-> "int", v |-> n]
\* an int of ten digits or more keeps its digits; v is then the largest
\* number a 32-bit integer holds, with the sign
BigV(neg, digits) ==
    [t |-> "int", v |-> IF neg THEN 0 - 2147483647 ELSE 2147483647, digits |-> digits]
\* the float m / 10^e, with m not divisible by 10 unless e = 0
FloatV(m, e) == [t |-> "float", m |-> m, e |-> e]
StrV(s) == [t |-> "str", s |-> s]
TimeV(y, mo, d, h, mi, s) ==
    [t |-> "datetime", y |-> y, mo |-> mo, d |-> d, h |-> h, mi |-> mi, s |-> s]

Ok(v) == [exc |-> "none", val |-> v]
Raise(e, m) == [exc |-> e, val |-> m]

----------------------------------------------------------------------------
(* Text.                                                                   *)

DigitChars == <<"0", "1", "2", "3", "4", "5", "6", "7", "8", "9">>
IsDigit(c) == \E i \in 1..10 : DigitChars[i] = c
DigitVal(c) == (CHOOSE i \in 1..10 : DigitChars[i] = c) - 1
AllDigits(s) == \A i \in 1..Len(s) : IsDigit(s[i])
Front(s) == SubSeq(s, 1, Len(s) - 1)

RECURSIVE NatVal(_)
NatVal(s) == IF s = <<>> THEN 0 ELSE NatVal(Front(s)) * 10 + DigitVal(s[Len(s)])

RECURSIVE Pow10(_)
Pow10(e) == IF e = 0 THEN 1 ELSE 10 * Pow10(e - 1)

\* n copies of the character c
Rep(c, n) == [i \in 1..n |-> c]

RECURSIVE StripZeros(_)
StripZeros(s) == IF Len(s) > 1 /\ s[1] = "0" THEN StripZeros(Tail(s)) ELSE s

\* int(s), for text over digits, signs and letters: an optional sign and at
\* least one digit, or ValueError
py_int(s) ==
    LET signed == s # <<>> /\ s[1] \in {"-", "+"}
        body == IF signed THEN Tail(s) ELSE s
        digits == StripZeros(body)
    IN  IF body # <<>> /\ AllDigits(body)
        THEN Ok(IF Len(digits) > 9 THEN BigV(s[1] = "-", digits)
                ELSE IntV(IF s[1] = "-" THEN 0 - NatVal(digits) ELSE NatVal(digits)))
        ELSE Raise("ValueError", [fn |-> "int", arg |-> s])

RECURSIVE Normal(_, _)
Normal(m, e) == IF e > 0 /\ m % 10 = 0 THEN Normal(m \div 10, e - 1) ELSE FloatV(m, e)

\* float(s), for text over digits, signs, "." and letters: an optional sign,
\* digits with at most one ".", at least one digit, or ValueError
py_float(s) ==
    LET signed == s # <<>> /\ s[1] \in {"-", "+"}
        body == IF signed THEN Tail(s) ELSE s
        dots == {i \in 1..Len(body) : body[i] = "."}
        dot == IF dots = {} THEN Len(body) + 1 ELSE CHOOSE i \in dots : TRUE
        whole == SubSeq(body, 1, dot - 1)
        frac == SubSeq(body, dot + 1, Len(body))
        n == NatVal(whole \o frac)
    IN  IF Cardinality(dots) <= 1 /\ AllDigits(whole) /\ AllDigits(frac)
           /\ Len(whole) + Len(frac) > 0
        THEN Ok(Normal(IF s[1] = "-" THEN 0 - n ELSE n, Len(frac)))
        ELSE Raise("ValueError", [fn |-> "float", arg |-> s])

----------------------------------------------------------------------------
(* The field converters.                                                   *)

IsLeap(y) == (y % 4 = 0 /\ y % 100 # 0) \/ y % 400 = 0
DaysIn(y, mo) ==
    IF mo = 2 THEN (IF IsLeap(y) THEN 29 ELSE 28)
    ELSE IF mo \in {4, 6, 9, 11} THEN 30 ELSE 31

\* datetime.strptime(s, '%Y%m%d_%H%M%S') on text of the full width: eight
\* digits, "_", six digits, naming a date and a time of day that exist
parse_timestamp(s) ==
    LET y == NatVal(SubSeq(s, 1, 4))
        mo == NatVal(SubSeq(s, 5, 6))
        d == NatVal(SubSeq(s, 7, 8))
        h == NatVal(SubSeq(s, 10, 11))
        mi == NatVal(SubSeq(s, 12, 13))
        sec == NatVal(SubSeq(s, 14, 15))
    IN  IF /\ Len(s) = 15
           /\ s[9] = "_"
           /\ AllDigits(SubSeq(s, 1, 8))
           /\ AllDigits(SubSeq(s, 10, 15))
           /\ y >= 1 /\ mo \in 1..12 /\ d \in 1..DaysIn(y, mo)
           /\ h <= 23 /\ mi <= 59 /\ sec <= 59
        THEN Ok(TimeV(y, mo, d, h, mi, sec))
        ELSE Raise("ValueError", [fn |-> "strptime", arg |-> s])

int_or_null(s) == IF Len(s) = 0 THEN Ok(None) ELSE py_int(s)

float_or_null(s) ==
    IF Len(s) = 0 \/ s = <<"N", "o", "n", "e">> THEN Ok(None) ELSE py_float(s)

imostr(s) == IF Len(s) > 20 THEN Ok(None) ELSE Ok(StrV(s))

\* str has no method substring: the long branch raises AttributeError
longstr(s) ==
    IF Len(s) > 255 THEN Raise("AttributeError", [fn |-> "substring", arg |-> s])
    ELSE Ok(StrV(s))

----------------------------------------------------------------------------
(* The validity predicates of pyrate.utils, which the parser calls.        *)

valid_mmsi(v) == v.t = "int" /\ v.v >= 100000000 /\ v.v <= 999999999
valid_message_id(v) == v.t = "int" /\ v.v \in 1..27
valid_imo(v) ==
    /\ v.t = "int" /\ v.v >= 1000000 /\ v.v <= 9999999
    /\ LET dg(k) == (v.v \div Pow10(k)) % 10
       IN  (dg(6) * 7 + dg(5) * 6 + dg(4) * 5 + dg(3) * 4 + dg(2) * 3 + dg(1) * 2) % 10
              = dg(0)
valid_longitude(v) ==
    v.t = "float" /\ v.m >= (0 - 180) * Pow10(v.e) /\ v.m <= 180 * Pow10(v.e)
valid_latitude(v) ==
    v.t = "float" /\ v.m >= (0 - 90) * Pow10(v.e) /\ v.m <= 90 * Pow10(v.e)
valid_navigational_status(v) == v.t = "int" /\ v.v \in 0..15
is_valid_sog(v) == v.t = "float" /\ v.m >= 0 /\ v.m * 10 <= 1022 * Pow10(v.e)
is_valid_cog(v) == v.t = "float" /\ v.m >= 0 /\ v.m < 360 * Pow10(v.e)
is_valid_heading(v) ==
    v.t = "float" /\ ((v.m >= 0 /\ v.m < 360 * Pow10(v.e)) \/ v = FloatV(511, 0))

\* a function of pyrate.utils passed by reference, here by name, and called
call(test, v) ==
    CASE test = "valid_navigational_status" -> valid_navigational_status(v)
      [] test = "is_valid_sog" -> is_valid_sog(v)
      [] test = "is_valid_cog" -> is_valid_cog(v)
      [] test = "is_valid_heading" -> is_valid_heading(v)

set_null_on_fail(row, col, test) ==
    IF row[col] # None /\ ~call(test, row[col]) THEN [row EXCEPT ![col] = None] ELSE row

check_imo(imo) == imo = None \/ valid_imo(imo)

----------------------------------------------------------------------------
(* The column schema.                                                      *)

MMSI == "MMSI"
TIME == "Time"
MESSAGE_ID == "Message_ID"
NAV_STATUS == "Navigational_status"
SOG == "SOG"
LONGITUDE == "Longitude"
LATITUDE == "Latitude"
COG == "COG"
HEADING == "Heading"
IMO == "IMO"
DRAUGHT == "Draught"
DEST == "Destination"
VESSEL_NAME == "Vessel_Name"
ETA_MONTH == "ETA_month"
ETA_DAY == "ETA_day"
ETA_HOUR == "ETA_hour"
ETA_MINUTE == "ETA_minute"

AIS_CSV_COLUMNS ==
    <<MMSI, TIME, MESSAGE_ID, NAV_STATUS, SOG, LONGITUDE, LATITUDE, COG, HEADING,
      IMO, DRAUGHT, DEST, VESSEL_NAME, ETA_MONTH, ETA_DAY, ETA_HOUR, ETA_MINUTE>>

AIS_XML_COLNAMES ==
    <<"mmsi", "date_time", "msg_type", "nav_status", "sog", "lon", "lat", "cog",
      "heading", "imo", "draught", "destination", "vessel_name", "eta_month",
      "eta_day", "eta_hour", "eta_minute">>

Columns == {AIS_CSV_COLUMNS[i] : i \in 1..Len(AIS_CSV_COLUMNS)}

\* list.index: the first position of x in the list, or ValueError
index(list, x) ==
    LET at == {i \in 1..Len(list) : list[i] = x}
    IN  IF at = {} THEN Raise("ValueError", x)
        ELSE Ok(CHOOSE i \in at : \A j \in at : i <= j)

xml_name_to_csv(name) == AIS_CSV_COLUMNS[index(AIS_XML_COLNAMES, name).val]

----------------------------------------------------------------------------
(* The row parser and the row validator.                                   *)

\* the converter parse_raw_row applies to each column
Converter(col, s) ==
    IF col = TIME THEN parse_timestamp(s)
    ELSE IF col \in {MMSI, MESSAGE_ID, NAV_STATUS, IMO, ETA_MONTH, ETA_DAY, ETA_HOUR,
                     ETA_MINUTE} THEN int_or_null(s)
    ELSE IF col \in {DEST, VESSEL_NAME} THEN longstr(s)
    ELSE float_or_null(s)

\* row[col] of a dict and its conversion: KeyError when the key is missing
ConvertColumn(row, col) ==
    IF col \in DOMAIN row THEN Converter(col, row[col]) ELSE Raise("KeyError", col)

\* the columns are converted in the order of the schema and the first
\* exception ends the call
parse_raw_row(row) ==
    LET bad == {i \in 1..Len(AIS_CSV_COLUMNS) :
                   ConvertColumn(row, AIS_CSV_COLUMNS[i]).exc # "none"}
    IN  IF bad # {}
        THEN ConvertColumn(row, AIS_CSV_COLUMNS[CHOOSE i \in bad : \A j \in bad : i <= j])
        ELSE Ok([c \in Columns |-> ConvertColumn(row, c).val])

CONTAINS_LAT_LON == {1, 2, 3, 4, 9, 11, 17, 18, 19, 21, 27}

\* validate_row without its else branch: longitude and latitude are kept
\* for a message type that requires no position
validate_row_keeps_position(row) ==
    IF ~valid_mmsi(row[MMSI]) \/ ~valid_message_id(row[MESSAGE_ID]) \/ ~check_imo(row[IMO])
    THEN [exc |-> "ValueError", val |-> "Row invalid", row |-> row]
    ELSE IF /\ row[MESSAGE_ID].v \in CONTAINS_LAT_LON
            /\ ~(valid_longitude(row[LONGITUDE]) /\ valid_latitude(row[LATITUDE]))
    THEN [exc |-> "ValueError", val |-> "Row invalid (lat,long)", row |-> row]
    ELSE LET r1 == set_null_on_fail(row, NAV_STATUS, "valid_navigational_status")
             r2 == set_null_on_fail(r1, SOG, "is_valid_sog")
             r3 == set_null_on_fail(r2, COG, "is_valid_cog")
             r4 == set_null_on_fail(r3, HEADING, "is_valid_heading")
         IN  [exc |-> "none", val |-> r4, row |-> r4]

\* validate_row without the check of SOG
validate_row_skips_sog(row) ==
    IF ~valid_mmsi(row[MMSI]) \/ ~valid_message_id(row[MESSAGE_ID]) \/ ~check_imo(row[IMO])
    THEN [exc |-> "ValueError", val |-> "Row invalid", row |-> row]
    ELSE IF /\ row[MESSAGE_ID].v \in CONTAINS_LAT_LON
            /\ ~(valid_longitude(row[LONGITUDE]) /\ valid_latitude(row[LATITUDE]))
    THEN [exc |-> "ValueError", val |-> "Row invalid (lat,long)", row |-> row]
    ELSE LET r0 == IF row[MESSAGE_ID].v \in CONTAINS_LAT_LON THEN row
                   ELSE [row EXCEPT ![LONGITUDE] = None, ![LATITUDE] = None]
             r1 == set_null_on_fail(r0, NAV_STATUS, "valid_navigational_status")
             r3 == set_null_on_fail(r1, COG, "is_valid_cog")
             r4 == set_null_on_fail(r3, HEADING, "is_valid_heading")
         IN  [exc |-> "none", val |-> r4, row |-> r4]

\* validate_row with "or" for "and" in the check of the position: one valid
\* coordinate is enough
validate_row_either_coordinate(row) ==
    IF ~valid_mmsi(row[MMSI]) \/ ~valid_message_id(row[MESSAGE_ID]) \/ ~check_imo(row[IMO])
    THEN [exc |-> "ValueError", val |-> "Row invalid", row |-> row]
    ELSE IF /\ row[MESSAGE_ID].v \in CONTAINS_LAT_LON
            /\ ~(valid_longitude(row[LONGITUDE]) \/ valid_latitude(row[LATITUDE]))
    THEN [exc |-> "ValueError", val |-> "Row invalid (lat,long)", row |-> row]
    ELSE LET r0 == IF row[MESSAGE_ID].v \in CONTAINS_LAT_LON THEN row
                   ELSE [row EXCEPT ![LONGITUDE] = None, ![LATITUDE] = None]
             r1 == set_null_on_fail(r0, NAV_STATUS, "valid_navigational_status")
             r2 == set_null_on_fail(r1, SOG, "is_valid_sog")
             r3 == set_null_on_fail(r2, COG, "is_valid_cog")
             r4 == set_null_on_fail(r3, HEADING, "is_valid_heading")
         IN  [exc |-> "none", val |-> r4, row |-> r4]

\* [exc, val, row]: the outcome, and the caller's dict after the call, which
\* validate_row changes in place
validate_row(row) ==
    IF ~valid_mmsi(row[MMSI]) \/ ~valid_message_id(row[MESSAGE_ID]) \/ ~check_imo(row[IMO])
    THEN [exc |-> "ValueError", val |-> "Row invalid", row |-> row]
    ELSE IF /\ row[MESSAGE_ID].v \in CONTAINS_LAT_LON
            /\ ~(valid_longitude(row[LONGITUDE]) /\ valid_latitude(row[LATITUDE]))
    THEN [exc |-> "ValueError", val |-> "Row invalid (lat,long)", row |-> row]
    ELSE LET r0 == IF row[MESSAGE_ID].v \in CONTAINS_LAT_LON THEN row
                   ELSE [row EXCEPT ![LONGITUDE] = None, ![LATITUDE] = None]
             r1 == set_null_on_fail(r0, NAV_STATUS, "valid_navigational_status")
             r2 == set_null_on_fail(r1, SOG, "is_valid_sog")
             r3 == set_null_on_fail(r2, COG, "is_valid_cog")
             r4 == set_null_on_fail(r3, HEADING, "is_valid_heading")
         IN  [exc |-> "none", val |-> r4, row |-> r4]

get_data_source(name) == 0

----------------------------------------------------------------------------
(* The input: raw records, and the files that carry them.                  *)

\* a well-formed position report
Base ==
    [MMSI |-> <<"2", "2", "7", "0", "0", "6", "7", "6", "0">>,
     Time |-> <<"2", "0", "1", "5", "0", "1", "3", "1", "_", "2", "3", "5", "9", "0", "0">>,
     Message_ID |-> <<"1">>,
     Navigational_status |-> <<"0">>,
     SOG |-> <<"1", "0", ".", "5">>,
     Longitude |-> <<"-", "1", ".", "5">>,
     Latitude |-> <<"5", "1">>,
     COG |-> <<"9", "0">>,
     Heading |-> <<"1", "8", "0">>,
     IMO |-> <<"9", "0", "7", "4", "7", "2", "9">>,
     Draught |-> <<"5", ".", "2">>,
     Destination |-> <<"R", "T", "M">>,
     Vessel_Name |-> <<"A", "B">>,
     ETA_month |-> <<"1", "2">>,
     ETA_day |-> <<"3", "1">>,
     ETA_hour |-> <<"2", "3">>,
     ETA_minute |-> <<"5", "9">>]

With(row, col, s) == [row EXCEPT ![col] = s]

\* the records the readers yield in the pipeline: a clean one, a dirty one
\* (short vessel identifier), and one that does not parse (navigational
\* status "x") and has no registry number
PipelineRows ==
    {Base,
     With(Base, MMSI, <<"1", "2">>),
     With(With(Base, NAV_STATUS, <<"x">>), IMO, <<>>)}

\* the text of each field that decides acceptance, and of each optional field
HardTexts(col) ==
    IF col = MMSI THEN {Base[MMSI], <<"1", "2">>, <<>>}
    ELSE IF col = MESSAGE_ID THEN {<<"1">>, <<"5">>, <<"9", "9">>, <<>>}
    ELSE IF col = IMO THEN {Base[IMO], <<"1", "2", "3">>, <<>>}
    ELSE IF col = LONGITUDE THEN {Base[LONGITUDE], <<"2", "0", "0">>, <<>>}
    ELSE {Base[LATITUDE], <<"-", "9", "0", ".", "5">>}
SoftTexts(col) ==
    IF col = NAV_STATUS THEN {<<"0">>, <<"1", "6">>, <<>>}
    ELSE IF col = SOG THEN {Base[SOG], <<"1", "0", "2", ".", "5">>}
    ELSE IF col = COG THEN {Base[COG], <<"3", "6", "0">>}
    ELSE {Base[HEADING], <<"5", "1", "1">>, <<"4", "0", "0">>}

\* every optional field valid, or every optional field out of its domain
AllBad(col) ==
    IF col = NAV_STATUS THEN {<<"1", "6">>}
    ELSE IF col = SOG THEN {<<"1", "0", "2", ".", "5">>}
    ELSE IF col = COG THEN {<<"3", "6", "0">>}
    ELSE {<<"4", "0", "0">>}
\* the records that differ from Base in the fields that decide acceptance
HardRows ==
    {[Base EXCEPT ![MMSI] = a, ![MESSAGE_ID] = b, ![IMO] = c, ![LONGITUDE] = d,
                  ![LATITUDE] = e] :
        a \in HardTexts(MMSI), b \in HardTexts(MESSAGE_ID), c \in HardTexts(IMO),
        d \in HardTexts(LONGITUDE), e \in HardTexts(LATITUDE)}
\* the records that differ from row in the optional fields
SoftRows(row, bad) ==
    LET texts(col) == IF bad THEN AllBad(col) ELSE SoftTexts(col)
    IN  {[row EXCEPT ![NAV_STATUS] = a, ![SOG] = b, ![COG] = c, ![HEADING] = d] :
            a \in texts(NAV_STATUS), b \in texts(SOG), c \in texts(COG),
            d \in texts(HEADING)}

\* four ways to be accepted or not: clean with a position, clean without,
\* dirty for the identifier, dirty for the position
FewHard ==
    {Base, With(Base, MESSAGE_ID, <<"5">>), With(Base, MMSI, <<"1", "2">>),
     With(Base, LATITUDE, <<"-", "9", "0", ".", "5">>)}

\* records that do not parse, or do not survive parsing
OddRows ==
    {With(Base, TIME, <<"2", "0", "1", "5", "-", "0", "1", "-", "3", "1">>),
     With(Base, TIME, <<"2", "0", "1", "5", "0", "2", "3", "0", "_", "0", "0", "0", "0", "0", "0">>),
     With(Base, TIME, <<>>),
     With(Base, SOG, <<"f", "a", "s", "t">>),
     With(Base, SOG, <<"N", "o", "n", "e">>),
     With(Base, ETA_DAY, <<"1", ".", "5">>),
     With(Base, DEST, Rep("D", 255)),
     With(Base, DEST, Rep("D", 256)),
     With(Base, IMO, Rep("7", 21))}

\* the records of the single-record runs
RawRows ==
    HardRows
      \cup UNION {SoftRows(h, TRUE) : h \in HardRows}
      \cup UNION {SoftRows(h, FALSE) : h \in FewHard}
      \cup OddRows \cup PipelineRows
      \cup {With(Base, NAV_STATUS, <<"x">>)}

\* the header line of a delimited file after split(','): the last name
\* carries the line's terminator
HeaderOk ==
    <<TIME, MMSI>> \o SubSeq(AIS_CSV_COLUMNS, 3, 17) \o <<"Region\n">>
HeaderNoHeading ==
    SubSeq(AIS_CSV_COLUMNS, 1, 8) \o SubSeq(AIS_CSV_COLUMNS, 10, 17) \o <<"Region\n">>
HeaderBare ==
    SubSeq(AIS_CSV_COLUMNS, 1, 16) \o <<"ETA_minute\n">>
CsvHeaders == {HeaderOk, HeaderNoHeading, HeaderBare}

\* the line of a delimited file that carries the record raw under a header
CsvLine(header, raw) ==
    [i \in 1..Len(header) |-> IF header[i] \in Columns THEN raw[header[i]] ELSE <<>>]

\* the child elements of an aismessage element that carries the record raw:
\* an element with empty content has text None, and one tag is not a field
XmlMessage(raw) ==
    [i \in 1..Len(AIS_XML_COLNAMES) |->
        [tag |-> AIS_XML_COLNAMES[i],
         textIsNone |-> raw[AIS_CSV_COLUMNS[i]] = <<>>,
         text |-> raw[AIS_CSV_COLUMNS[i]]]]
      \o <<[tag |-> "callsign", textIsNone |-> FALSE, text |-> <<"F", "G">>]>>

Names == {"a", "b"}
Sinks == {"clean", "dirty"}

----------------------------------------------------------------------------
(* The state of a run.                                                     *)

VARIABLES
    dpc,            \* where the Dispatcher (the thread that called run) is
    exc,            \* the exception that ended run(), or "none"
    filesLeft,      \* how many files iterfiles() may still yield
    cur,            \* the file in hand: name, ext and its header line
    indices,        \* readcsv: the position of each column in the header
    rowsLeft,       \* how many records the readers may still yield
    rowNo,          \* how many records the reader of the file has yielded
    row,            \* the raw record in hand
    converted_row,  \* the typed record in hand
    ctr,            \* clean_ctr, dirty_ctr and invalid_ctr
    errlog,         \* the error log files under log.root, by name
    sources,        \* the rows of db.sources, the File Ingestion Records
    tableIndex,     \* per sink, whether the table's indices are there
    q,              \* cleanq and dirtyq: the records in each queue
    unfinished,     \* per queue, the puts not yet matched by a task_done
    wpc,            \* where each sqlworker thread is
    msgs,           \* each sqlworker's batch
    calls,          \* per sink, the calls of insert_rows_batch so far
    faults,         \* how many calls of insert_rows_batch have raised
    committed,      \* how many rows of db.sources the last commit made durable
    enqueued,       \* per queue, every record put so far
    rich            \* whether the first record of the run is any of RawRows

vars ==
    <<dpc, exc, filesLeft, cur, indices, rowsLeft, rowNo, row, converted_row,
      ctr, errlog, sources, tableIndex, q, unfinished, wpc, msgs, calls, faults, committed,
      enqueued, rich>>

dispatcher == <<dpc, exc, filesLeft, cur, indices, rowsLeft, rowNo, row,
                converted_row, ctr>>
reading == <<filesLeft, cur, indices, rowsLeft, rowNo, row, converted_row, ctr>>
workers == <<wpc, msgs, calls, faults, committed>>

NoFile == [name |-> "", ext |-> "", header |-> <<>>]
NoLog == [state |-> "absent", header |-> <<>>, rows |-> <<>>]
ZeroCtr == [clean |-> 0, dirty |-> 0, invalid |-> 0]

\* a File Ingestion Record left by an earlier run, and its closed error log
EarlierSource == [filename |-> "a", ext |-> ".csv", invalid |-> 0, clean |-> 1, dirty |-> 0]
EarlierLog ==
    [state |-> "closed", header |-> AIS_CSV_COLUMNS \o <<"Error_Message">>, rows |-> <<>>]

InitWith(files, rows, first) ==
    /\ dpc = "drop"
    /\ exc = "none"
    /\ filesLeft = files
    /\ cur = NoFile
    /\ indices = <<>>
    /\ rowsLeft = rows
    /\ rowNo = 0
    /\ row = None
    /\ converted_row = None
    /\ ctr = ZeroCtr
    /\ \E earlier \in BOOLEAN :
          /\ sources = IF earlier THEN <<EarlierSource>> ELSE <<>>
          /\ errlog = [n \in Names |-> IF earlier /\ n = "a" THEN EarlierLog ELSE NoLog]
          /\ committed = Len(sources)
    /\ tableIndex = [s \in Sinks |-> "built"]
    /\ q = [s \in Sinks |-> <<>>]
    /\ unfinished = [s \in Sinks |-> 0]
    /\ wpc = [s \in Sinks |-> "unstarted"]
    /\ msgs = [s \in Sinks |-> <<>>]
    /\ calls = [s \in Sinks |-> <<>>]
    /\ faults = 0
    /\ enqueued = [s \in Sinks |-> <<>>]
    /\ rich = first

Init == InitWith(MaxFiles, MaxRows, FALSE)

\* run() ends with the exception e
Abort(e) == dpc' = "exit" /\ exc' = e

----------------------------------------------------------------------------
(* The Dispatcher: the body of run().                                      *)

\* db.clean.drop_indices(); db.dirty.drop_indices()
DropIndices ==
    /\ dpc = "drop"
    /\ tableIndex' = [s \in Sinks |-> "dropped"]
    /\ dpc' = "spawn"
    /\ UNCHANGED <<exc, reading, errlog, sources, q, unfinished, workers, enqueued, rich>>

\* dirty_thread.start(); clean_thread.start()
StartThreads ==
    /\ dpc = "spawn"
    /\ wpc' = [s \in Sinks |-> "get"]
    /\ dpc' = "iter"
    /\ UNCHANGED <<exc, reading, errlog, sources, tableIndex, q, unfinished, msgs, calls,
                   faults, committed, enqueued, rich>>

\* for fp, name, ext in files.iterfiles(): the next file
NextFile(name, ext, header) ==
    /\ dpc = "iter"
    /\ filesLeft > 0
    /\ filesLeft' = filesLeft - 1
    /\ cur' = [name |-> name, ext |-> ext, header |-> header]
    /\ dpc' = "check"
    /\ UNCHANGED <<exc, indices, rowsLeft, rowNo, row, converted_row, ctr, errlog,
                   sources, tableIndex, q, unfinished, workers, enqueued, rich>>

\* for fp, name, ext in files.iterfiles(): no file is left
NoMoreFiles ==
    /\ dpc = "iter"
    /\ dpc' = "join"
    /\ UNCHANGED <<exc, filesLeft, cur, indices, rowsLeft, rowNo, row, converted_row, ctr,
                   errlog, sources, tableIndex, q, unfinished, workers, enqueued, rich>>

\* the threads of a run: the one that called run(), and the sqlworker
\* thread of each sink
Threads == {"run"} \cup Sinks
\* the thread t has called an operation of db.conn (a query, an insert, a
\* commit) that has not returned
InConn(t) ==
    IF t = "run" THEN dpc \in {"query", "insert_row"}
    ELSE wpc[t] \in {"insert", "committing"}
\* a lock around every use of db.conn
ConnFreeLocked(t) == \A u \in Threads \ {t} : ~InConn(u)
\* whether the thread t may call an operation of db.conn: always, the
\* connection is used under no lock
ConnFree(t) == TRUE

\* with db.conn.cursor() as cur: cur.execute("SELECT COUNT(*) ..."): the
\* call
EnterQuery ==
    /\ dpc = "check"
    /\ ConnFree("run")
    /\ dpc' = "query"
    /\ UNCHANGED <<exc, reading, errlog, sources, tableIndex, q, unfinished, workers,
                   enqueued, rich>>

\* the idempotency test with "> 1" for "> 0"
AlreadyParsedTwice(name) ==
    Cardinality({i \in 1..Len(sources) : sources[i].filename = name}) > 1

\* SELECT COUNT(*) FROM sources WHERE filename = name
AlreadyParsed(name) ==
    Cardinality({i \in 1..Len(sources) : sources[i].filename = name}) > 0

\* the idempotency check: an ingested file is skipped.  (Between two files
\* the variables of the loop are dead, and the model clears them.)
CheckParsed ==
    /\ dpc = "query"
    /\ IF AlreadyParsed(cur.name)
       THEN dpc' = "iter" /\ cur' = NoFile
       ELSE dpc' = "open" /\ cur' = cur
    /\ UNCHANGED <<exc, filesLeft, indices, rowsLeft, rowNo, row, converted_row, ctr,
                   errlog, sources, tableIndex, q, unfinished, workers, enqueued, rich>>

\* the error log is opened for writing and gets its header, the counters
\* are zeroed, and the reader is chosen by the extension
BeginFile ==
    /\ dpc = "open"
    /\ errlog' = [errlog EXCEPT ![cur.name] =
                     [state |-> "open", header |-> AIS_CSV_COLUMNS \o <<"Error_Message">>,
                      rows |-> <<>>]]
    /\ ctr' = ZeroCtr
    /\ rowNo' = 0
    /\ dpc' = IF cur.ext = ".csv" THEN "header"
              ELSE IF cur.ext = ".xml" THEN "next" ELSE "iter"
    /\ cur' = IF cur.ext \in {".csv", ".xml"} THEN cur ELSE NoFile
    /\ UNCHANGED <<exc, filesLeft, indices, rowsLeft, row, converted_row,
                   sources, tableIndex, q, unfinished, workers, enqueued, rich>>

----------------------------------------------------------------------------
(* The readers.                                                            *)

\* readcsv reading the first field for a column the header lacks, in place
\* of raising RuntimeError
readcsv_indices_lenient(cols) ==
    Ok([c \in Columns |-> IF index(cols, c).exc # "none" THEN 1 ELSE index(cols, c).val])

\* readcsv, up to its first yield: the position of every column of the
\* schema in the header, or RuntimeError when one is not there
readcsv_indices(cols) ==
    IF \E c \in Columns : index(cols, c).exc # "none"
    THEN Raise("RuntimeError", "Missing columns in file header")
    ELSE Ok([c \in Columns |-> index(cols, c).val])

\* readcsv, one line: the fields of the schema's columns; a line with too
\* few fields raises IndexError
readcsv_row(ix, line) ==
    IF \E c \in Columns : ix[c] > Len(line)
    THEN Raise("IndexError", "list index out of range")
    ELSE Ok([c \in Columns |-> line[ix[c]]])

\* readxml, one aismessage element: the dict built from the end events of
\* its children, in document order
RECURSIVE readxml_current(_, _)
readxml_current(elems, current) ==
    IF elems = <<>> THEN current
    ELSE LET e == Head(elems)
         IN  IF index(AIS_XML_COLNAMES, e.tag).exc = "none" /\ ~e.textIsNone
             THEN readxml_current(Tail(elems), (xml_name_to_csv(e.tag) :> e.text) @@ current)
             ELSE readxml_current(Tail(elems), current)
readxml_row(elems) == readxml_current(elems, [c \in {} |-> <<>>])

\* the files iterfiles() may yield: a delimited file under each header, a
\* markup file, and a file of another kind
InputFiles ==
    {[name |-> "a", ext |-> ".csv", header |-> h] : h \in CsvHeaders}
      \cup {[name |-> "b", ext |-> ".xml", header |-> <<>>],
            [name |-> "b", ext |-> ".txt", header |-> <<>>]}

\* the records the reader may yield next
Feed == IF rich THEN RawRows ELSE PipelineRows

\* readcsv: the header line
ReadHeader ==
    /\ dpc = "header"
    /\ LET r == readcsv_indices(cur.header)
       IN  IF r.exc = "none"
           THEN /\ indices' = r.val
                /\ dpc' = "next"
                /\ exc' = exc
           ELSE /\ Abort(r.exc)
                /\ indices' = indices
    /\ UNCHANGED <<filesLeft, cur, rowsLeft, rowNo, row, converted_row, ctr,
                   errlog, sources, tableIndex, q, unfinished, workers, enqueued, rich>>

\* what the reader does when asked for the record of the line or element
\* it was given: a raw record, or IndexError
Yield(raw, cut) ==
    IF cur.ext = ".csv"
    THEN LET line == CsvLine(cur.header, raw)
         IN  readcsv_row(indices, SubSeq(line, 1, Len(line) - cut))
    ELSE Ok(readxml_row(XmlMessage(raw)))

\* for row in iterator(fp), and the first half of the loop's body: the
\* reader yields a record; it is parsed and tagged with its source, or, on
\* ValueError, written to the error log and counted invalid.  Any other
\* exception, of the reader, of the parser or of the handler, ends run()
ReadRow(raw, cut) ==
    /\ dpc = "next"
    /\ rowsLeft > 0
    /\ rowsLeft' = rowsLeft - 1
    /\ rowNo' = rowNo + 1
    /\ rich' = FALSE
    /\ LET y == Yield(raw, cut)
           r == parse_raw_row(y.val)
       IN  IF y.exc # "none"
           THEN /\ Abort(y.exc)
                /\ UNCHANGED <<row, converted_row, ctr, errlog>>
           ELSE IF r.exc = "none"
           THEN /\ row' = y.val
                /\ converted_row' = ("source" :> IntV(get_data_source(cur.name))) @@ r.val
                /\ dpc' = "validate"
                /\ UNCHANGED <<exc, ctr, errlog>>
           ELSE IF r.exc = "ValueError" /\ Columns \subseteq DOMAIN y.val
           THEN /\ errlog' = [errlog EXCEPT ![cur.name].rows =
                                 Append(@, [vals |-> [i \in 1..Len(AIS_CSV_COLUMNS) |->
                                                         y.val[AIS_CSV_COLUMNS[i]]],
                                            msg |-> r.val])]
                /\ ctr' = [ctr EXCEPT !.invalid = @ + 1]
                /\ dpc' = "next"
                /\ UNCHANGED <<exc, row, converted_row>>
           ELSE /\ Abort(IF r.exc = "ValueError" THEN "KeyError" ELSE r.exc)
                /\ row' = y.val
                /\ UNCHANGED <<converted_row, ctr, errlog>>
    /\ UNCHANGED <<filesLeft, cur, indices, sources, tableIndex, q, unfinished, workers,
                   enqueued>>

\* for row in iterator(fp): the reader is exhausted
EndOfFile ==
    /\ dpc = "next"
    /\ dpc' = "source"
    /\ UNCHANGED <<exc, reading, errlog, sources, tableIndex, q, unfinished, workers,
                   enqueued, rich>>

\* q.put(item): the queue takes the record
Put(s, item) ==
    /\ q' = [q EXCEPT ![s] = Append(@, [oid |-> item.oid, row |-> item.row])]
    /\ unfinished' = [unfinished EXCEPT ![s] = @ + 1]
    /\ enqueued' = [enqueued EXCEPT ![s] = Append(@, item)]

\* the second half of the loop body with clean_ctr incremented in the
\* except branch too
ValidateRowCountsClean ==
    /\ dpc = "validate"
    /\ LET v == validate_row(converted_row)
           s == IF v.exc = "none" THEN "clean" ELSE "dirty"
       IN  /\ Len(q[s]) < MaxSize
           /\ Put(s, [oid |-> <<cur.name, rowNo>>, parsed |-> converted_row,
                      row |-> IF v.exc = "none" THEN v.val ELSE v.row])
           /\ ctr' = [ctr EXCEPT !.clean = @ + 1]
    /\ dpc' = "next"
    /\ row' = None
    /\ converted_row' = None
    /\ UNCHANGED <<exc, filesLeft, cur, indices, rowsLeft, rowNo, errlog, sources,
                   tableIndex, workers, rich>>

\* the second half of the loop body on queues made without maxsize: put
\* never blocks
ValidateRowUnbounded ==
    /\ dpc = "validate"
    /\ LET v == validate_row(converted_row)
           s == IF v.exc = "none" THEN "clean" ELSE "dirty"
       IN  /\ Put(s, [oid |-> <<cur.name, rowNo>>, parsed |-> converted_row,
                      row |-> IF v.exc = "none" THEN v.val ELSE v.row])
           /\ ctr' = [ctr EXCEPT ![s] = @ + 1]
    /\ dpc' = "next"
    /\ row' = None
    /\ converted_row' = None
    /\ UNCHANGED <<exc, filesLeft, cur, indices, rowsLeft, rowNo, errlog, sources,
                   tableIndex, workers, rich>>

\* the body of the loop over the records, second half: the typed record is
\* validated and put on cleanq, or on dirtyq when validate_row raises
\* ValueError; put blocks while the queue is full
ValidateRow ==
    /\ dpc = "validate"
    /\ LET v == validate_row(converted_row)
           s == IF v.exc = "none" THEN "clean" ELSE "dirty"
       IN  /\ Len(q[s]) < MaxSize
           /\ Put(s, [oid |-> <<cur.name, rowNo>>, parsed |-> converted_row,
                      row |-> IF v.exc = "none" THEN v.val ELSE v.row])
           /\ ctr' = [ctr EXCEPT ![s] = @ + 1]
    /\ dpc' = "next"
    /\ row' = None
    /\ converted_row' = None
    /\ UNCHANGED <<exc, filesLeft, cur, indices, rowsLeft, rowNo, errlog, sources,
                   tableIndex, workers, rich>>

\* db.sources.insert_row(...): the call
EnterInsertRow ==
    /\ dpc = "source"
    /\ ConnFree("run")
    /\ dpc' = "insert_row"
    /\ UNCHANGED <<exc, reading, errlog, sources, tableIndex, q, unfinished, workers,
                   enqueued, rich>>

\* db.sources.insert_row(...) returns; errorlog.close()
InsertSource ==
    /\ dpc = "insert_row"
    /\ sources' = Append(sources, [filename |-> cur.name, ext |-> cur.ext,
                                   invalid |-> ctr.invalid, clean |-> ctr.clean,
                                   dirty |-> ctr.dirty])
    /\ errlog' = [errlog EXCEPT ![cur.name].state = "closed"]
    /\ dpc' = "iter"
    /\ cur' = NoFile
    /\ indices' = <<>>
    /\ ctr' = ZeroCtr
    /\ rowNo' = 0
    /\ UNCHANGED <<exc, filesLeft, rowsLeft, row, converted_row, tableIndex, q,
                   unfinished, workers, enqueued, rich>>

\* validq.join(): no validq is defined anywhere, and run() ends with
\* NameError before it joins dirtyq or cleanq, commits or rebuilds an index
WaitQueues ==
    /\ dpc = "join"
    /\ Abort("NameError")
    /\ UNCHANGED <<reading, errlog, sources, tableIndex, q, unfinished, workers,
                   enqueued, rich>>

----------------------------------------------------------------------------
(* The Batch Writers: sqlworker(q, table), one thread per sink.            *)

\* both threads started on cleanq
QueueOfClean(s) == "clean"

\* the queue each sqlworker thread is started on: args=(cleanq, db.clean)
\* and args=(dirtyq, db.dirty)
QueueOf(s) == s

\* msgs = [q.get()]: blocks while the queue is empty
Get(s) ==
    /\ wpc[s] = "get"
    /\ q[QueueOf(s)] # <<>>
    /\ msgs' = [msgs EXCEPT ![s] = <<Head(q[QueueOf(s)])>>]
    /\ q' = [q EXCEPT ![QueueOf(s)] = Tail(@)]
    /\ wpc' = [wpc EXCEPT ![s] = "more"]
    /\ UNCHANGED <<dispatcher, errlog, sources, tableIndex, unfinished, calls, faults,
                   committed, enqueued, rich>>

\* while not q.empty(): the test finds a record in the queue
NotEmpty(s) ==
    /\ wpc[s] = "more"
    /\ q[QueueOf(s)] # <<>>
    /\ wpc' = [wpc EXCEPT ![s] = "take"]
    /\ UNCHANGED <<dispatcher, errlog, sources, tableIndex, q, unfinished, msgs, calls,
                   faults, committed, enqueued, rich>>

\* the take with msgs.insert(0, ...) for msgs.append(...)
DrainMoreInFront(s) ==
    /\ wpc[s] = "take"
    /\ IF q[QueueOf(s)] # <<>>
       THEN /\ msgs' = [msgs EXCEPT ![s] = <<Head(q[QueueOf(s)])>> \o @]
            /\ q' = [q EXCEPT ![QueueOf(s)] = Tail(@)]
            /\ wpc' = [wpc EXCEPT ![s] = "more"]
       ELSE /\ wpc' = [wpc EXCEPT ![s] = "dead"]
            /\ UNCHANGED <<q, msgs>>
    /\ UNCHANGED <<dispatcher, errlog, sources, tableIndex, unfinished, calls,
                   faults, committed, enqueued, rich>>

\* msgs.append(q.get(timeout=0.5)): on a queue that is empty by now the get
\* raises queue.Empty after the timeout, which nothing catches, and the
\* thread ends
DrainMore(s) ==
    /\ wpc[s] = "take"
    /\ IF q[QueueOf(s)] # <<>>
       THEN /\ msgs' = [msgs EXCEPT ![s] = Append(@, Head(q[QueueOf(s)]))]
            /\ q' = [q EXCEPT ![QueueOf(s)] = Tail(@)]
            /\ wpc' = [wpc EXCEPT ![s] = "more"]
       ELSE /\ wpc' = [wpc EXCEPT ![s] = "dead"]
            /\ UNCHANGED <<q, msgs>>
    /\ UNCHANGED <<dispatcher, errlog, sources, tableIndex, unfinished, calls,
                   faults, committed, enqueued, rich>>

\* while not q.empty(): the queue is empty, and the batch is written:
\* table.insert_rows_batch(msgs), the call
EnterInsert(s) ==
    /\ wpc[s] = "more"
    /\ q[QueueOf(s)] = <<>>
    /\ ConnFree(s)
    /\ wpc' = [wpc EXCEPT ![s] = "insert"]
    /\ UNCHANGED <<dispatcher, errlog, sources, tableIndex, q, unfinished, msgs, calls,
                   faults, committed, enqueued, rich>>

\* the batch written with the task_done loop inside the try, after the
\* insert: a batch whose insert raises releases no slot
InsertBatchKeepsSlots(s, ok) ==
    /\ wpc[s] = "insert"
    /\ calls' = [calls EXCEPT ![s] =
                    IF Len(msgs[s]) > 0 THEN Append(@, [msgs |-> msgs[s], ok |-> ok]) ELSE @]
    /\ faults' = IF ok THEN faults ELSE faults + 1
    /\ unfinished' = [unfinished EXCEPT ![QueueOf(s)] = IF ok THEN @ - Len(msgs[s]) ELSE @]
    /\ wpc' = [wpc EXCEPT ![s] = "commit"]
    /\ UNCHANGED <<dispatcher, errlog, sources, tableIndex, q, msgs, committed, enqueued,
                   rich>>

\* the batch put back on the queue when its insert raises, to be tried again
InsertBatchRetries(s, ok) ==
    /\ wpc[s] = "insert"
    /\ calls' = [calls EXCEPT ![s] =
                    IF Len(msgs[s]) > 0 THEN Append(@, [msgs |-> msgs[s], ok |-> ok]) ELSE @]
    /\ faults' = IF ok THEN faults ELSE faults + 1
    /\ q' = [q EXCEPT ![QueueOf(s)] = IF ok THEN @ ELSE msgs[s] \o @]
    /\ unfinished' = [unfinished EXCEPT ![QueueOf(s)] = IF ok THEN @ - Len(msgs[s]) ELSE @]
    /\ wpc' = [wpc EXCEPT ![s] = "commit"]
    /\ UNCHANGED <<dispatcher, errlog, sources, tableIndex, msgs, committed, enqueued,
                   rich>>

\* table.insert_rows_batch(msgs) returns or raises (the exception is
\* logged), then one q.task_done() for each record of the batch
InsertBatch(s, ok) ==
    /\ wpc[s] = "insert"
    /\ calls' = [calls EXCEPT ![s] =
                    IF Len(msgs[s]) > 0 THEN Append(@, [msgs |-> msgs[s], ok |-> ok]) ELSE @]
    /\ faults' = IF ok THEN faults ELSE faults + 1
    /\ unfinished' = [unfinished EXCEPT ![QueueOf(s)] = @ - Len(msgs[s])]
    /\ wpc' = [wpc EXCEPT ![s] = "commit"]
    /\ UNCHANGED <<dispatcher, errlog, sources, tableIndex, q, msgs, committed, enqueued,
                   rich>>

\* db.conn.commit(): the call
EnterCommit(s) ==
    /\ wpc[s] = "commit"
    /\ ConnFree(s)
    /\ wpc' = [wpc EXCEPT ![s] = "committing"]
    /\ UNCHANGED <<dispatcher, errlog, sources, tableIndex, q, unfinished, msgs, calls,
                   faults, committed, enqueued, rich>>

\* db.conn.commit() returns: what any thread wrote on the connection is
\* durable, the Dispatcher's rows of db.sources included
Commit(s) ==
    /\ wpc[s] = "committing"
    /\ committed' = Len(sources)
    /\ msgs' = [msgs EXCEPT ![s] = <<>>]
    /\ wpc' = [wpc EXCEPT ![s] = "get"]
    /\ UNCHANGED <<dispatcher, errlog, sources, tableIndex, q, unfinished, calls, faults,
                   enqueued, rich>>

sqlworker(s) ==
    \/ Get(s)
    \/ NotEmpty(s)
    \/ DrainMore(s)
    \/ EnterInsert(s)
    \/ \E ok \in BOOLEAN : InsertBatch(s, ok)
    \/ EnterCommit(s)
    \/ Commit(s)

----------------------------------------------------------------------------
(* The specifications.                                                     *)

\* a line two fields short is among the lines of a delimited file
Cuts(raw) == IF raw = Base /\ cur.ext = ".csv" THEN {0, 2} ELSE {0}

run ==
    \/ DropIndices
    \/ StartThreads
    \/ \E f \in InputFiles : NextFile(f.name, f.ext, f.header)
    \/ NoMoreFiles
    \/ EnterQuery
    \/ CheckParsed
    \/ BeginFile
    \/ ReadHeader
    \/ \E raw \in Feed : \E cut \in Cuts(raw) : ReadRow(raw, cut)
    \/ EndOfFile
    \/ ValidateRow
    \/ EnterInsertRow
    \/ InsertSource
    \/ WaitQueues

Next == run \/ \E s \in Sinks : sqlworker(s)

\* a run over at most MaxFiles files and MaxRows records
Spec == Init /\ [][Next]_vars

\* a run over one file with every thread scheduled again and again: each
\* sqlworker thread, and the Dispatcher where it waits in put
InitFair == InitWith(1, MaxRows, FALSE)
SpecFair ==
    /\ InitFair /\ [][Next]_vars
    /\ WF_vars(ValidateRow)
    /\ \A s \in Sinks : WF_vars(sqlworker(s))

\* a run over one file whose first record is any of RawRows
InitRecord == InitWith(1, 2, TRUE)
SpecRecord == InitRecord /\ [][Next]_vars

----------------------------------------------------------------------------
(* What the claims speak of.                                               *)

Range(seq) == {seq[i] : i \in 1..Len(seq)}

\* the records passed to insert_rows_batch of a sink, in the order passed
RECURSIVE Concat(_)
Concat(cs) == IF cs = <<>> THEN <<>> ELSE Head(cs).msgs \o Concat(Tail(cs))
Passed(s) == Concat(calls[s])

\* how many records of the file called name were put on the queue of sink s
Sent(s, name) == Cardinality({i \in 1..Len(enqueued[s]) : enqueued[s][i].oid[1] = name})
\* how many rejected rows the error log of the file called name holds
Logged(name) == Len(errlog[name].rows)

\* run() has left the wait for the queues, which it does by NameError alone
PastJoins == dpc = "exit" /\ exc = "NameError"

\* C1: when the Dispatcher has left the wait for the queues, each sink's
\* Batch Writer has passed to insert_rows_batch as many records as the
\* Dispatcher put on that sink's queue, and no record is in a queue or in a
\* batch not yet written.
C1_DrainedAtCompletion ==
    PastJoins =>
        \A s \in Sinks : Len(Passed(s)) = Len(enqueued[s]) /\ q[s] = <<>> /\ unfinished[s] = 0

\* C2: no batch is inserted into a table whose indices are not dropped, and
\* a run that has iterated over all its files and ended has called
\* create_indices on both sinks.
C2_IndexLifecycle ==
    /\ \A s \in Sinks : calls[s] # <<>> => tableIndex[s] # "built"
    /\ PastJoins => \A s \in Sinks : tableIndex[s] = "rebuilt"

\* C3: a file whose name has a File Ingestion Record when the Dispatcher
\* reaches it is skipped: no record is read, nothing is put on a queue, its
\* error log is not touched and no File Ingestion Record is added; and no
\* filename ever has two File Ingestion Records.
C3_OneRecordPerName ==
    \A n \in Names : Cardinality({i \in 1..Len(sources) : sources[i].filename = n}) <= 1
C3_SkipStep ==
    (dpc = "query" /\ dpc' # "query"
        /\ \E i \in 1..Len(sources) : sources[i].filename = cur.name)
    => (dpc' = "iter" /\ UNCHANGED <<rowsLeft, rowNo, ctr, errlog, sources, q, enqueued>>)
C3_Idempotent == []C3_OneRecordPerName /\ [][C3_SkipStep]_vars
\* the first file of the run, "a", was ingested by an earlier run and skipped
C3_Witness ==
    /\ dpc = "iter" /\ filesLeft < MaxFiles
    /\ sources = <<EarlierSource>>
    /\ errlog = [n \in Names |-> IF n = "a" THEN EarlierLog ELSE NoLog]
    /\ \A s \in Sinks : enqueued[s] = <<>>

\* C4: while a file is read every record yielded so far went to exactly one
\* of the error log, cleanq and dirtyq and was counted once, and the File
\* Ingestion Record written for the file carries these counts, which add up
\* to the number of records the reader yielded.
C4_Counted ==
    dpc \in {"next", "validate", "source", "insert_row"} =>
        /\ ctr.clean = Sent("clean", cur.name)
        /\ ctr.dirty = Sent("dirty", cur.name)
        /\ ctr.invalid = Logged(cur.name)
        /\ ctr.clean + ctr.dirty + ctr.invalid
              = IF dpc = "validate" THEN rowNo - 1 ELSE rowNo
C4_RecordStep ==
    Len(sources') > Len(sources) =>
        LET r == sources'[Len(sources')]
        IN  /\ Len(sources') = Len(sources) + 1
            /\ r.filename = cur.name
            /\ r.clean = Sent("clean", cur.name)
            /\ r.dirty = Sent("dirty", cur.name)
            /\ r.invalid = Logged(cur.name)
            /\ r.clean + r.dirty + r.invalid = rowNo
C4_Accounting == []C4_Counted /\ [][C4_RecordStep]_vars
\* a file of two records, one rejected and one dirty, has its record
C4_Witness ==
    \E i \in 1..Len(sources) :
        /\ sources[i].invalid = 1 /\ sources[i].dirty = 1 /\ sources[i].clean = 0
        /\ Logged(sources[i].filename) = 1 /\ Sent("dirty", sources[i].filename) = 1

\* the header of the delimited file in hand lacks a column of the schema
HeaderLacksColumn == cur.ext = ".csv" /\ ~(Columns \subseteq Range(cur.header))

\* C5: of a delimited file whose header lacks a column of the schema no
\* record is put on a queue, no rejected row is logged and no File
\* Ingestion Record is written, so that its name is not found by the
\* idempotency check of a later run.
C5_HeaderMismatch ==
    (HeaderLacksColumn /\ dpc \notin {"check", "query"}) =>
        /\ dpc \in {"open", "header", "exit"}
        /\ \A s \in Sinks : Sent(s, cur.name) = 0
        /\ Logged(cur.name) = 0
        /\ ~AlreadyParsed(cur.name)
\* the reader has refused the header, after a record of another file was sent
C5_Witness ==
    /\ HeaderLacksColumn /\ dpc = "exit" /\ exc = "RuntimeError"
    /\ \E s \in Sinks : enqueued[s] # <<>>

\* C6: a file with a header mismatch or an unsupported extension does not
\* end the run: the Dispatcher goes on with the files that remain.
C6_FileErrorsOnlySkip == ~(dpc = "exit" /\ exc = "RuntimeError")

\* C7: a record on which a field converter raises ValueError is rejected
\* and no more: one row in the error log, the invalid counter one higher,
\* and the Dispatcher goes on with the next record; run() does not end on it.
C7_ParseErrorContained ==
    (row # None /\ parse_raw_row(row).exc = "ValueError") => dpc # "exit"

\* every record put on a queue so far: its sink, the typed record as
\* parsed, and the record as put
Routed ==
    UNION {{[sink |-> s, parsed |-> enqueued[s][i].parsed, row |-> enqueued[s][i].row] :
                i \in 1..Len(enqueued[s])} : s \in Sinks}

\* the message type of the typed record p requires a position
BearsPosition(p) == p[MESSAGE_ID].t = "int" /\ p[MESSAGE_ID].v \in CONTAINS_LAT_LON
\* the typed record p fails a check of its identifier, type or registry number
BadIdentity(p) ==
    \/ ~valid_mmsi(p[MMSI])
    \/ ~valid_message_id(p[MESSAGE_ID])
    \/ (p[IMO] # None /\ ~valid_imo(p[IMO]))
BadPosition(p) == ~valid_longitude(p[LONGITUDE]) \/ ~valid_latitude(p[LATITUDE])

\* the validity check of each optional field
SoftColumns == {NAV_STATUS, SOG, COG, HEADING}
SoftValid(col, v) ==
    IF col = NAV_STATUS THEN valid_navigational_status(v)
    ELSE IF col = SOG THEN is_valid_sog(v)
    ELSE IF col = COG THEN is_valid_cog(v)
    ELSE is_valid_heading(v)
FailsSoft(p, col) == p[col] # None /\ ~SoftValid(col, p[col])

\* C8 as claimed: every record put on a queue, clean or dirty, whose message
\* type requires no position has neither longitude nor latitude.
C8_Original ==
    \A e \in Routed :
        ~BearsPosition(e.parsed) => e.row[LONGITUDE] = None /\ e.row[LATITUDE] = None

\* C8: a record whose message type requires no position is dirty only for
\* its identifier, type or registry number, whatever its longitude and
\* latitude; put on cleanq it has neither longitude nor latitude, and put
\* on dirtyq it is the record as parsed, longitude and latitude included.
C8_PositionForcedNull ==
    \A e \in Routed :
        ~BearsPosition(e.parsed) =>
            /\ e.sink = "dirty" <=> BadIdentity(e.parsed)
            /\ e.sink = "clean" => e.row[LONGITUDE] = None /\ e.row[LATITUDE] = None
            /\ e.sink = "dirty" => e.row = e.parsed
\* a clean record of type 5 lost a parsed longitude, and one with a latitude
\* out of range is clean all the same
C8_Witness ==
    \E e \in Routed :
        /\ ~BearsPosition(e.parsed) /\ e.sink = "clean"
        /\ e.parsed[LONGITUDE] # None /\ ~valid_latitude(e.parsed[LATITUDE])
        /\ e.row[LONGITUDE] = None /\ e.row[LATITUDE] = None

\* C9 as claimed: in every record put on a queue, clean or dirty, each
\* optional field that fails its check is null and every other field but
\* longitude and latitude is as parsed.
C9_Original ==
    \A e \in Routed :
        \A c \in DOMAIN e.parsed :
            IF c \in SoftColumns /\ FailsSoft(e.parsed, c) THEN e.row[c] = None
            ELSE c \in {LONGITUDE, LATITUDE} \/ e.row[c] = e.parsed[c]

\* C9: in a record put on cleanq each optional field that fails its check
\* is null and every other field but longitude and latitude is as parsed; a
\* record put on dirtyq is the record as parsed, with no field nulled.
C9_SoftValidation ==
    \A e \in Routed :
        /\ e.sink = "clean" =>
              \A c \in DOMAIN e.parsed :
                  IF c \in SoftColumns /\ FailsSoft(e.parsed, c) THEN e.row[c] = None
                  ELSE c \in {LONGITUDE, LATITUDE} \/ e.row[c] = e.parsed[c]
        /\ e.sink = "dirty" => e.row = e.parsed
\* a clean record lost a speed out of range and kept a valid heading
C9_Witness ==
    \E e \in Routed :
        /\ e.sink = "clean"
        /\ FailsSoft(e.parsed, SOG) /\ e.row[SOG] = None
        /\ e.parsed[HEADING] # None /\ e.row[HEADING] = e.parsed[HEADING]
        /\ e.row[MMSI] = e.parsed[MMSI]

\* C10: a parsed record is put on dirtyq if and only if its identifier is
\* invalid, or its type is invalid, or its registry number is there and
\* invalid, or its type requires a position and its longitude or latitude
\* is invalid; otherwise it is put on cleanq.  The rule reads none of
\* navigational status, SOG, COG and heading.
C10_Classification ==
    \A e \in Routed :
        e.sink = "dirty" <=>
            (BadIdentity(e.parsed) \/ (BearsPosition(e.parsed) /\ BadPosition(e.parsed)))
\* a position report is dirty for its latitude alone, with every optional
\* field valid
C10_Witness ==
    \E e \in Routed :
        /\ e.sink = "dirty" /\ ~BadIdentity(e.parsed) /\ BearsPosition(e.parsed)
        /\ valid_longitude(e.parsed[LONGITUDE]) /\ ~valid_latitude(e.parsed[LATITUDE])
        /\ \A c \in SoftColumns : ~FailsSoft(e.parsed, c)

\* the records of the calls cs of insert_rows_batch, as a sequence of the
\* records' identities
Oids(seq) == [i \in 1..Len(seq) |-> seq[i].oid]
\* no element of the sequence seq occurs twice in it
NoRepeat(seq) == \A i, j \in 1..Len(seq) : seq[i] = seq[j] => i = j

\* C11: a Batch Writer whose insert_rows_batch raises goes on: it calls
\* task_done once for each record of the batch, so that the slots a join
\* waits for are those of the records in the queue or in the batch in hand
\* and of no failed batch, it commits and takes the next record; and no
\* record is passed to insert_rows_batch a second time.
C11_SlotsReleased ==
    \A s \in Sinks :
        /\ unfinished[s] = Len(q[s]) + (IF wpc[s] \in {"more", "take", "insert"} THEN Len(msgs[s]) ELSE 0)
        /\ NoRepeat(Oids(Passed(s)))
C11_FailedStep ==
    \A s \in Sinks :
        (Len(calls'[s]) > Len(calls[s]) /\ ~calls'[s][Len(calls'[s])].ok)
        => /\ wpc'[s] = "commit"
           /\ unfinished'[s] = unfinished[s] - Len(msgs[s])
           /\ Len(calls'[s]) = Len(calls[s]) + 1
C11_FailurePolicy == []C11_SlotsReleased /\ [][C11_FailedStep]_vars
\* a writer whose first batch failed has written a second batch, and its
\* queue has no slot left to wait for
C11_Witness ==
    \E s \in Sinks :
        /\ Len(calls[s]) = 2 /\ ~calls[s][1].ok /\ calls[s][2].ok
        /\ unfinished[s] = 0 /\ wpc[s] = "get"

\* the Dispatcher is in put with the typed record, and the queue the put
\* is on
InPut == dpc = "validate"
PutQueue == IF validate_row(converted_row).exc = "none" THEN "clean" ELSE "dirty"
PutBlocked == InPut /\ Len(q[PutQueue]) >= MaxSize

\* C12: no queue ever holds more records than its capacity (MaxSize here,
\* 5000 in the program); while the queue of a put is full the Dispatcher
\* stays in the put with the record in hand, and nothing is dropped and
\* run() does not end; and when every thread is scheduled again and again
\* the put completes.
C12_Bounded == \A s \in Sinks : Len(q[s]) <= MaxSize
C12_BlockedStep ==
    PutBlocked =>
        /\ dpc' = "validate" /\ exc' = exc
        /\ converted_row' = converted_row
        /\ enqueued' = enqueued
C12_Backpressure ==
    /\ []C12_Bounded
    /\ [][C12_BlockedStep]_vars
    /\ (InPut ~> dpc = "next")
\* the Dispatcher waits in put on a full queue whose writer is about to
\* take a record
C12_Witness ==
    /\ PutBlocked
    /\ wpc[PutQueue] = "get"
    /\ Len(enqueued[PutQueue]) = MaxSize

\* the sequence a is the beginning of the sequence b
IsPrefix(a, b) == Len(a) <= Len(b) /\ SubSeq(b, 1, Len(a)) = a
\* the records put on the queue of sink s, as the queue holds them
Queued(s) == [i \in 1..Len(enqueued[s]) |-> [oid |-> enqueued[s][i].oid,
                                              row |-> enqueued[s][i].row]]

C14_BatchInHand ==
    \A s \in Sinks :
        /\ wpc[s] \in {"more", "take", "insert", "commit", "committing"} => Len(msgs[s]) >= 1
        /\ wpc[s] = "take" => q[QueueOf(s)] # <<>>
        /\ wpc[s] # "dead"
C14_WriterStep ==
    \A s \in Sinks :
        /\ (wpc[s] = "more" /\ wpc'[s] \notin {"more", "take"})
           => wpc'[s] = "insert" /\ msgs'[s] = msgs[s]
        /\ (wpc[s] = "insert" /\ wpc'[s] # "insert")
           => /\ wpc'[s] = "commit"
              /\ calls'[s] = Append(calls[s], [msgs |-> msgs[s], ok |-> calls'[s][Len(calls'[s])].ok])
              /\ unfinished'[QueueOf(s)] = unfinished[QueueOf(s)] - Len(msgs[s])
        /\ calls'[s] # calls[s] => wpc[s] = "insert" /\ wpc'[s] = "commit"
        /\ (wpc[s] = "commit" /\ wpc'[s] # "commit") => wpc'[s] = "committing"
        /\ (wpc[s] = "committing" /\ wpc'[s] # "committing")
           => wpc'[s] = "get" /\ calls'[s] = calls[s]
        /\ (wpc[s] = "take" /\ wpc'[s] # "take")
           => wpc'[s] = "more" /\ msgs'[s] = Append(msgs[s], Head(q[QueueOf(s)]))
C14_BatchFormation == []C14_BatchInHand /\ [][C14_WriterStep]_vars
\* a writer has passed a batch of two records, the second got by a take
\* after the test of the queue, and is about to commit
C14_Witness ==
    \E s \in Sinks :
        /\ wpc[s] = "commit" /\ Len(msgs[s]) = 2
        /\ calls[s] # <<>> /\ calls[s][Len(calls[s])].msgs = msgs[s]
        /\ unfinished[s] = 0

\* C15: a record of a tagged file that lacks a column of the schema is
\* parsed, or rejected to the error log, like any other record: with such
\* a record in hand run() does not end.
C15_MissingKeyContained ==
    (row # None /\ ~(Columns \subseteq DOMAIN row)) => dpc # "exit"

\* C16: a record whose destination or vessel name is longer than 255
\* characters is parsed, the text cut to its first 254 characters: longstr
\* raises nothing and run() does not end on the record.
C16_LongstrTotal ==
    (row # None /\ Columns \subseteq DOMAIN row
        /\ (Len(row[DEST]) > 255 \/ Len(row[VESSEL_NAME]) > 255))
    => /\ longstr(row[DEST]) = Ok(StrV(SubSeq(row[DEST], 1, 254)))
       /\ dpc = "validate"
       /\ converted_row[DEST] = StrV(SubSeq(row[DEST], 1, 254))

\* C17: a record whose registry number is longer than 20 characters, its
\* other fields well-formed, is parsed and its typed registry number is
\* null.
C17_LongImoNull ==
    (row # None /\ Columns \subseteq DOMAIN row /\ Len(row[IMO]) > 20)
    => dpc = "validate" /\ converted_row[IMO] = None

\* C18: the thread of run() and the two sqlworker threads all use db.conn
\* and nothing makes one wait for another: a thread that has come to an
\* operation of the connection (the idempotency query, the insert of the
\* File Ingestion Record, the insert of a batch, a commit) can call it
\* whatever operations of the other threads are under way.
C18_SharedConnection ==
    /\ dpc = "check" => ENABLED EnterQuery
    /\ dpc = "source" => ENABLED EnterInsertRow
    /\ \A s \in Sinks :
          /\ (wpc[s] = "more" /\ q[QueueOf(s)] = <<>>) => ENABLED EnterInsert(s)
          /\ wpc[s] = "commit" => ENABLED EnterCommit(s)
\* the three threads are inside an operation of the connection at once:
\* the Dispatcher inserts a File Ingestion Record while one writer inserts
\* a batch and the other commits
C18_Witness ==
    /\ Cardinality({t \in Threads : InConn(t)}) = 3
    /\ dpc = "insert_row"
    /\ \E s, t \in Sinks : wpc[s] = "insert" /\ wpc[t] = "committing"

\* the batch a writer has taken and not yet passed to insert_rows_batch
InHand(s) == IF wpc[s] \in {"more", "take", "insert"} THEN msgs[s] ELSE <<>>

\* C19: every record put on the queue of a sink is in one place: passed to
\* insert_rows_batch of that sink, once, whether the call failed or not, or
\* in the batch its writer has in hand, or still in the queue; no record is
\* put on both queues, so none is passed to both sinks or held by both
\* writers.
C19_AtMostOnce ==
    /\ \A s \in Sinks :
          /\ Queued(s) = Passed(s) \o InHand(s) \o q[s]
          /\ NoRepeat(Oids(Queued(s)))
    /\ Range(Oids(Queued("clean"))) \cap Range(Oids(Queued("dirty"))) = {}
    /\ Range(Oids(msgs["clean"])) \cap Range(Oids(msgs["dirty"])) = {}
\* each sink was passed one record of the same file, in a call that failed
\* for one of them, and both writers wait for more
C19_Witness ==
    /\ \A s \in Sinks : Len(calls[s]) = 1 /\ Len(Passed(s)) = 1 /\ wpc[s] = "get"
    /\ calls["clean"][1].ok /\ ~calls["dirty"][1].ok
    /\ Passed("clean")[1].oid[1] = Passed("dirty")[1].oid[1]

\* C20: when a file has its File Ingestion Record, every record of the
\* file that was put on a queue has been passed to insert_rows_batch of its
\* sink; this holds of the records written to db.sources, and so of those a
\* writer's commit has made durable.
C20_MarkerSafety ==
    \A i \in 1..Len(sources) : \A s \in Sinks : \A j \in 1..Len(enqueued[s]) :
        enqueued[s][j].oid[1] = sources[i].filename
            => enqueued[s][j].oid \in Range(Oids(Passed(s)))

====
